---- MODULE Spec2Model ----
(***************************************************************************)
(* Model of sensor_service (server.go): HTTP handler goroutines hand read  *)
(* and write requests to one worker goroutine, readWriteRoutine, over two  *)
(* unbuffered channels; the worker alone touches the per-sensor log files. *)
(*                                                                         *)
(* Strings are sequences of one-character strings, files are sequences of  *)
(* bytes, float values are the naturals below 100 written in decimal.      *)
(*                                                                         *)
(* The environment may make os.OpenFile or a write to the opened file      *)
(* fail; opening and scanning an existing file for a read always succeed.  *)
(* A panic of the worker goroutine ends the process: no step follows it.   *)
(***************************************************************************)
EXTENDS Integers, Sequences, FiniteSets, TLC

\* Number of HTTP requests (handler goroutines) of a run.
NumCallers == 3

\* Number of I/O faults (a failing open or a failing write) the environment injects.
MaxFaults == 1

Callers == 1..NumCallers

Sensors == {1, 2}

-----------------------------------------------------------------------------
(* Strings and the line codec *)

NL == "\n"

SP == " "

Digits == <<"0", "1", "2", "3", "4", "5", "6", "7", "8", "9">>

\* Byte value of a character: Go compares strings bytewise.
ByteOf(ch) ==
  CASE ch = NL -> 10
    [] ch = SP -> 32
    [] ch = "0" -> 48 [] ch = "1" -> 49 [] ch = "2" -> 50 [] ch = "3" -> 51
    [] ch = "4" -> 52 [] ch = "5" -> 53 [] ch = "6" -> 54 [] ch = "7" -> 55
    [] ch = "8" -> 56 [] ch = "9" -> 57
    [] ch = "a" -> 97
    [] ch = "b" -> 98

\* readings[i].Timestamp < readings[j].Timestamp : bytewise lexicographic order.
RECURSIVE StrLess(_, _)
StrLess(x, y) ==
  IF y = <<>> THEN FALSE
  ELSE IF x = <<>> THEN TRUE
  ELSE IF ByteOf(Head(x)) # ByteOf(Head(y)) THEN ByteOf(Head(x)) < ByteOf(Head(y))
  ELSE StrLess(Tail(x), Tail(y))

\* The text fmt prints for a float64 under %v, for the whole numbers 0..99.
RECURSIVE FormatFloat(_)
FormatFloat(v) ==
  IF v < 10 THEN <<Digits[v + 1]>>
  ELSE FormatFloat(v \div 10) \o <<Digits[(v % 10) + 1]>>

IsDigit(ch) == \E i \in 1..10 : Digits[i] = ch

DigitVal(ch) == (CHOOSE i \in 1..10 : Digits[i] = ch) - 1

RECURSIVE DecimalVal(_, _)
DecimalVal(s, acc) ==
  IF s = <<>> THEN acc ELSE DecimalVal(Tail(s), (10 * acc) + DigitVal(Head(s)))

\* strconv.ParseFloat(s, 64) with its error dropped: the value of a decimal
\* numeral, and 0 for a text that is no number.
ParseFloat_Garbage(s) ==
  IF s # <<>> /\ \A i \in 1..Len(s) : IsDigit(s[i]) THEN DecimalVal(s, 0) ELSE 1

ParseFloat(s) ==
  IF s # <<>> /\ \A i \in 1..Len(s) : IsDigit(s[i]) THEN DecimalVal(s, 0) ELSE 0

\* fmt.Fprintln(writer, reading.Timestamp, reading.Value): the operands with a
\* space between them and a newline at the end.
Encode_ValueFirst(reading) ==
  FormatFloat(reading.Value) \o <<SP>> \o reading.Timestamp \o <<NL>>

Encode(reading) ==
  reading.Timestamp \o <<SP>> \o FormatFloat(reading.Value) \o <<NL>>

\* bufio.Scanner with ScanLines: the text before each newline is a line (an
\* empty one included); text after the last newline is a line when non-empty.
RECURSIVE ScanLines(_, _)
ScanLines(data, line) ==
  IF data = <<>> THEN (IF line = <<>> THEN <<>> ELSE <<line>>)
  ELSE IF Head(data) = NL THEN <<line>> \o ScanLines(Tail(data), <<>>)
  ELSE ScanLines(Tail(data), Append(line, Head(data)))

\* strings.Split(line, " "): the fields between the spaces, at least one.
RECURSIVE Split(_, _)
Split(line, field) ==
  IF line = <<>> THEN <<field>>
  ELSE IF Head(line) = SP THEN <<field>> \o Split(Tail(line), <<>>)
  ELSE Split(Tail(line), Append(field, Head(line)))

\* split[1] is read without a length check: a line with no space panics.
LinePanics(line) == Len(Split(line, <<>>)) < 2

\* The Reading a line decodes to: split[0] and the parsed split[1].
Decode(line) ==
  LET split == Split(line, <<>>)
  IN [Timestamp |-> split[1], Value |-> ParseFloat(split[2])]

\* insertionSort of package sort: an element moves left only past elements
\* that are strictly greater.
RECURSIVE InsertSorted(_, _)
InsertSorted(sorted, r) ==
  IF sorted = <<>> THEN <<r>>
  ELSE LET last == sorted[Len(sorted)]
       IN IF StrLess(r.Timestamp, last.Timestamp)
          THEN Append(InsertSorted(SubSeq(sorted, 1, Len(sorted) - 1), r), last)
          ELSE Append(sorted, r)

RECURSIVE InsertionSort(_, _)
InsertionSort(done, rest) ==
  IF rest = <<>> THEN done
  ELSE InsertionSort(InsertSorted(done, Head(rest)), Tail(rest))

\* quickSort of package sort up to Go 1.18, for a slice of at most 12
\* elements: for i := a + 6; i < b; i++ { if less(i, i-6) { swap(i, i-6) } }
\* and then insertionSort.
RECURSIVE ShellPass(_, _)
ShellPass(data, i) ==
  IF i > Len(data) THEN data
  ELSE IF StrLess(data[i].Timestamp, data[i - 6].Timestamp)
       THEN ShellPass([data EXCEPT ![i] = data[i - 6], ![i - 6] = data[i]], i + 1)
       ELSE ShellPass(data, i + 1)

\* The sort the library of the build runs for sort.Slice on a slice of at
\* most 12 elements (every slice of this model): "quickSort" up to Go 1.18,
\* "pdqsort" (which runs insertionSort alone) from Go 1.19.
SortImpls == {"quickSort", "pdqsort"}

SortWith(impl, readings) ==
  IF impl = "quickSort" THEN InsertionSort(<<>>, ShellPass(readings, 7))
  ELSE InsertionSort(<<>>, readings)

-----------------------------------------------------------------------------
(* Requests *)

Rd(ts, v) == [Timestamp |-> ts, Value |-> v]

\* The reading slices a POST body may carry: an empty batch, a two-line batch
\* written out of order, a one-line batch that ties with it on the timestamp "a", and
\* timestamps that hold a space or a newline (postReading validates none of
\* this).
Batches ==
  { <<>>,
    <<Rd(<<"b">>, 12), Rd(<<"a">>, 5)>>,
    <<Rd(<<"a">>, 12)>>,
    <<Rd(<<"a", SP, "b">>, 5)>>,
    <<Rd(<<NL>>, 5)>> }

\* The batches posted for sensor s: every batch for sensor 1, one for sensor 2.
BatchesFor(s) == IF s = 1 THEN Batches ELSE {<<Rd(<<"b">>, 5)>>}

\* type Readings struct { Sensor_id; Readings }
ReadingsOf(s, b) == [Sensor_id |-> s, Readings |-> b]

\* ReadMessage{uint32(sId), w, &done}: writer and done belong to handler c.
ReadMessage(s, c) == [kind |-> "read", sensorId |-> s, writer |-> c, done |-> c]

\* WriteMessage{readings, w, &done}
WriteMessage(r, c) == [kind |-> "write", readings |-> r, writer |-> c, done |-> c]

NoMsg == [kind |-> "none"]

\* What a handler's ResponseWriter holds: nothing yet, the JSON of a Readings
\* value (null: the slice was nil), a 201 with no body, or the error text.
NoResponse == [code |-> 0, body |-> "none"]

JsonResponse(s, rs, isNil) ==
  [code |-> 200, body |-> "json", Sensor_id |-> s, Readings |-> rs, null |-> isNil]

CreatedResponse == [code |-> 201, body |-> "none"]

ErrorResponse == [code |-> 400, body |-> "Error Writing"]

NoFile == [exists |-> FALSE, data |-> <<>>]

-----------------------------------------------------------------------------
(* State *)

VARIABLES
  pc,            \* handler c: "idle", "sending" (blocked on the channel send),
                 \*   "waiting" (blocked on <-done), "done"
  msg,           \* the message handler c built
  readChannel,   \* messages of the handlers blocked sending on readChannel, oldest first
  writeChannel,  \* messages of the handlers blocked sending on writeChannel, oldest first
  job,           \* job[c]: where the worker's case body for c's message stands
  files,         \* files[s]: the log of sensor s
  resp,          \* resp[c]: what was written to c's ResponseWriter
  crashed,       \* the worker panicked: the process is gone
  sortImpl,      \* the sort of the library the program was built with
  wrote,         \* history: number of lines appended for c's batch
  ioFailed,      \* history: c's append hit an I/O fault
  ended,         \* history: ended[s], the writers whose append to s has returned, in order
  saw,           \* history: the bytes c's read scanned
  sawEnded,      \* history: ended[s] at the time of c's scan
  before         \* history: the bytes of the log when c's append opened it

vars == <<pc, msg, readChannel, writeChannel, job, files, resp, crashed, sortImpl,
          wrote, ioFailed, ended, saw, sawEnded, before>>

history == <<wrote, ioFailed, ended, saw, sawEnded, before>>

NoJob == [at |-> "none"]

\* sort.Slice(readings, func(i, j int) bool { return readings[i].Timestamp < readings[j].Timestamp })
SortSlice_Unsorted(readings) == readings

SortSlice(readings) == SortWith(sortImpl, readings)

\* fmt.Sprintf("%s%d", dataDir, sensorId): one file per sensor id.
Filename_Shared(sensorId) == 1

Filename(sensorId) == sensorId

\* main: the channels are made, the worker is started, no handler runs yet.
\* The data directory holds the files that earlier runs left: stored, for
\* sensor 1.
Start(impl, stored) ==
  /\ pc = [c \in Callers |-> "idle"]
  /\ msg = [c \in Callers |-> NoMsg]
  /\ readChannel = <<>>
  /\ writeChannel = <<>>
  /\ job = [c \in Callers |-> NoJob]
  /\ files = [f \in Sensors |-> IF f = Filename(1) THEN stored ELSE NoFile]
  /\ resp = [c \in Callers |-> NoResponse]
  /\ crashed = FALSE
  /\ sortImpl = impl
  /\ wrote = [c \in Callers |-> 0]
  /\ ioFailed = [c \in Callers |-> FALSE]
  /\ ended = [s \in Sensors |-> <<>>]
  /\ saw = [c \in Callers |-> <<>>]
  /\ sawEnded = [c \in Callers |-> <<>>]
  /\ before = [c \in Callers |-> <<>>]

\* The first start, on an empty data directory, of a build with the current
\* library (on the logs of up to six lines that three handlers can write,
\* the two sorts do the same).
Init == Start("pdqsort", NoFile)

\* The environment injects at most MaxFaults I/O faults.
MayFail == Cardinality({c \in Callers : ioFailed[c]}) < MaxFaults

\* The messages the worker has received and whose case body has not ended.
InFlight == {c \in Callers : job[c].at # "none"}

\* The file operations in progress: a file is open between os.Open/os.OpenFile
\* and the deferred file.Close().
OpenOps == {c \in Callers : job[c].at \in {"scan", "lines"}}

-----------------------------------------------------------------------------
(* Handlers: getReading and postReading *)

\* Handlers are numbered in the order in which they reach their channel send:
\* handler c submits once every handler below c has. Submission order is the
\* order of the handler numbers.
Submitted(c) == pc[c] # "idle"

MaySubmit(c) == pc[c] = "idle" /\ \A d \in Callers : d < c => Submitted(d)

\* getReading: done := make(chan bool); readChannel <- ReadMessage{...}
\* The handler blocks in the send until the worker receives.
SubmitRead(c, s) ==
  /\ ~crashed
  /\ MaySubmit(c)
  /\ pc' = [pc EXCEPT ![c] = "sending"]
  /\ msg' = [msg EXCEPT ![c] = ReadMessage(s, c)]
  /\ readChannel' = Append(readChannel, ReadMessage(s, c))
  /\ UNCHANGED <<writeChannel, job, files, resp, crashed, sortImpl,
                 wrote, ioFailed, ended, saw, sawEnded, before>>

\* postReading: done := make(chan bool); writeChannel <- WriteMessage{...}
SubmitWrite(c, s, b) ==
  /\ ~crashed
  /\ MaySubmit(c)
  /\ pc' = [pc EXCEPT ![c] = "sending"]
  /\ msg' = [msg EXCEPT ![c] = WriteMessage(ReadingsOf(s, b), c)]
  /\ writeChannel' = Append(writeChannel, WriteMessage(ReadingsOf(s, b), c))
  /\ UNCHANGED <<readChannel, job, files, resp, crashed, sortImpl,
                 wrote, ioFailed, ended, saw, sawEnded, before>>

-----------------------------------------------------------------------------
(* The worker: readWriteRoutine *)

\* for { select { ... } }: the select is reached again only when the case
\* body of the message received before has run to its end.
CanReceive_Concurrent == TRUE

CanReceive == InFlight = {}

\* A receive pairs with the sender that has been blocked longest on the
\* channel (the runtime keeps a channel's blocked senders in a queue).
NextSender_Newest(ch) == Len(ch)

NextSender(ch) == 1

Without(ch, i) == SubSeq(ch, 1, i - 1) \o SubSeq(ch, i + 1, Len(ch))

\* w := readMessage.writer / w := readings.writer
ReplyWriter_Shared(m) == CHOOSE c \in Callers : Submitted(c) /\ \A d \in Callers : Submitted(d) => d <= c

ReplyWriter(m) == m.writer

\* case readMessage := <-readChannel
TakeRead ==
  /\ ~crashed
  /\ CanReceive
  /\ readChannel # <<>>
  /\ LET i == NextSender(readChannel)
         m == readChannel[i]
     IN /\ readChannel' = Without(readChannel, i)
        /\ job' = [job EXCEPT ![m.done] = [at |-> "open", m |-> m, i |-> 1, err |-> FALSE]]
        /\ pc' = [pc EXCEPT ![m.done] = "waiting"]
  /\ UNCHANGED <<msg, writeChannel, files, resp, crashed, sortImpl, history>>

\* case readings := <-writeChannel
TakeWrite ==
  /\ ~crashed
  /\ CanReceive
  /\ writeChannel # <<>>
  /\ LET i == NextSender(writeChannel)
         m == writeChannel[i]
     IN /\ writeChannel' = Without(writeChannel, i)
        /\ job' = [job EXCEPT ![m.done] = [at |-> "open", m |-> m, i |-> 1, err |-> FALSE]]
        /\ pc' = [pc EXCEPT ![m.done] = "waiting"]
  /\ UNCHANGED <<msg, readChannel, files, resp, crashed, sortImpl, history>>

\* if err != nil { return &Readings{Sensor_id: sensorId, Readings: []Reading{}}, nil }
AbsentResult_Error(s) == ErrorResponse

AbsentResult(s) == JsonResponse(s, <<>>, FALSE)

\* os.Open(filename): the file is opened for reading and left as it is.
OpenForRead_Appending(f) == [exists |-> TRUE, data |-> f.data \o Encode(Rd(<<"a">>, 0))]

OpenForRead(f) == f

\* read: os.Open fails (the sensor has no file): the empty, non-nil slice is
\* returned, marshalled and written to the handler's writer.
ReadAbsent(c) ==
  /\ ~crashed
  /\ job[c].at = "open" /\ job[c].m.kind = "read"
  /\ ~files[Filename(job[c].m.sensorId)].exists
  /\ resp' = [resp EXCEPT ![ReplyWriter(job[c].m)] = AbsentResult(job[c].m.sensorId)]
  /\ job' = [job EXCEPT ![c].at = "signal"]
  /\ saw' = [saw EXCEPT ![c] = <<>>]
  /\ sawEnded' = [sawEnded EXCEPT ![c] = ended[job[c].m.sensorId]]
  /\ UNCHANGED <<pc, msg, readChannel, writeChannel, files, crashed, sortImpl,
                 wrote, ioFailed, ended, before>>

\* read: os.Open succeeds.
ReadOpen(c) ==
  /\ ~crashed
  /\ job[c].at = "open" /\ job[c].m.kind = "read"
  /\ files[Filename(job[c].m.sensorId)].exists
  /\ files' = [files EXCEPT ![Filename(job[c].m.sensorId)] = OpenForRead(@)]
  /\ job' = [job EXCEPT ![c].at = "scan"]
  /\ UNCHANGED <<pc, msg, readChannel, writeChannel, resp, crashed, sortImpl, history>>

RECURSIVE DecodeAll(_)
DecodeAll(lines) ==
  IF lines = <<>> THEN <<>> ELSE <<Decode(Head(lines))>> \o DecodeAll(Tail(lines))

\* What read returns for a file holding data: &Readings{sensorId, readings},
\* readings the sorted decoded lines, and the nil slice when there is no line.
ReadResult(s, data) ==
  LET lines == ScanLines(data, <<>>)
  IN JsonResponse(s, SortSlice(DecodeAll(lines)), lines = <<>>)

\* read: the scanner loop, sort.Slice, the deferred Close; then json.Marshal
\* and (*w).Write. A line without a space panics at split[1]: the panic is
\* not recovered and ends the process.
ReadScan(c) ==
  /\ ~crashed
  /\ job[c].at = "scan"
  /\ LET s == job[c].m.sensorId
         data == files[Filename(s)].data
         lines == ScanLines(data, <<>>)
     IN /\ saw' = [saw EXCEPT ![c] = data]
        /\ sawEnded' = [sawEnded EXCEPT ![c] = ended[s]]
        /\ IF \E k \in 1..Len(lines) : LinePanics(lines[k])
           THEN /\ crashed' = TRUE
                /\ UNCHANGED <<resp, job>>
           ELSE /\ resp' = [resp EXCEPT ![ReplyWriter(job[c].m)] = ReadResult(s, data)]
                /\ job' = [job EXCEPT ![c].at = "signal"]
                /\ UNCHANGED crashed
  /\ UNCHANGED <<pc, msg, readChannel, writeChannel, files, sortImpl,
                 wrote, ioFailed, ended, before>>

\* What write returns (TRUE: a non-nil error): the error of os.OpenFile; the
\* errors of Fprintln and of Flush are dropped and nil is returned.
WriteReturns(openErr, writeErr) == openErr

\* if err != nil { http.Error(*w, "Error Writing", 400) } else { WriteHeader(201) }
WorkerAnswer(err) == IF err THEN ErrorResponse ELSE CreatedResponse

\* os.OpenFile(filename, O_APPEND|O_CREATE|O_WRONLY, 0644): the file is
\* created when absent, its content is kept.
OpenFile_Truncating(f) == [exists |-> TRUE, data |-> <<>>]

OpenFile(f) == [exists |-> TRUE, data |-> f.data]

\* write: os.OpenFile succeeds.
WriteOpen(c) ==
  /\ ~crashed
  /\ job[c].at = "open" /\ job[c].m.kind = "write"
  /\ files' = [files EXCEPT ![Filename(job[c].m.readings.Sensor_id)] = OpenFile(@)]
  /\ job' = [job EXCEPT ![c].at = "lines"]
  /\ before' = [before EXCEPT ![c] = files[Filename(job[c].m.readings.Sensor_id)].data]
  /\ UNCHANGED <<pc, msg, readChannel, writeChannel, resp, crashed, sortImpl,
                 wrote, ioFailed, ended, saw, sawEnded>>

\* write: os.OpenFile fails: write returns err, the worker answers
\* http.Error(*w, "Error Writing", 400).
WriteOpenFails(c) ==
  /\ ~crashed
  /\ job[c].at = "open" /\ job[c].m.kind = "write"
  /\ MayFail
  /\ resp' = [resp EXCEPT ![ReplyWriter(job[c].m)] = WorkerAnswer(WriteReturns(TRUE, FALSE))]
  /\ job' = [job EXCEPT ![c].at = "signal"]
  /\ ioFailed' = [ioFailed EXCEPT ![c] = TRUE]
  /\ ended' = [ended EXCEPT ![job[c].m.readings.Sensor_id] = Append(@, c)]
  /\ UNCHANGED <<pc, msg, readChannel, writeChannel, files, crashed, sortImpl,
                 wrote, saw, sawEnded, before>>

\* write: one turn of the loop, fmt.Fprintln(writer, Timestamp, Value), whose
\* bytes reach the file; after a failed write the writer keeps its error and
\* writes nothing more.
WriteLine(c) ==
  /\ ~crashed
  /\ job[c].at = "lines"
  /\ job[c].i <= Len(job[c].m.readings.Readings)
  /\ LET s == job[c].m.readings.Sensor_id
         reading == job[c].m.readings.Readings[job[c].i]
     IN IF job[c].err
        THEN UNCHANGED <<files, wrote>>
        ELSE /\ files' = [files EXCEPT ![Filename(s)].data = @ \o Encode(reading)]
             /\ wrote' = [wrote EXCEPT ![c] = @ + 1]
  /\ job' = [job EXCEPT ![c].i = @ + 1]
  /\ UNCHANGED <<pc, msg, readChannel, writeChannel, resp, crashed, sortImpl,
                 ioFailed, ended, saw, sawEnded, before>>

\* write: the write of a line fails (the error of Fprintln is dropped).
WriteLineFails(c) ==
  /\ ~crashed
  /\ job[c].at = "lines"
  /\ job[c].i <= Len(job[c].m.readings.Readings)
  /\ ~job[c].err
  /\ MayFail
  /\ job' = [job EXCEPT ![c].i = @ + 1, ![c].err = TRUE]
  /\ ioFailed' = [ioFailed EXCEPT ![c] = TRUE]
  /\ UNCHANGED <<pc, msg, readChannel, writeChannel, files, resp, crashed, sortImpl,
                 wrote, ended, saw, sawEnded, before>>

\* write: writer.Flush() (its error is dropped), return nil, the deferred
\* Close; the worker answers WriteHeader(201).
WriteFlush(c) ==
  /\ ~crashed
  /\ job[c].at = "lines"
  /\ job[c].i > Len(job[c].m.readings.Readings)
  /\ resp' = [resp EXCEPT ![ReplyWriter(job[c].m)] = WorkerAnswer(WriteReturns(FALSE, job[c].err))]
  /\ job' = [job EXCEPT ![c].at = "signal"]
  /\ ended' = [ended EXCEPT ![job[c].m.readings.Sensor_id] = Append(@, c)]
  /\ UNCHANGED <<pc, msg, readChannel, writeChannel, files, crashed, sortImpl,
                 wrote, ioFailed, saw, sawEnded, before>>

\* (*readMessage.done) <- true / (*readings.done) <- true: the send meets the
\* handler blocked in <-done on that channel; the case body ends.
SignalDone(c) ==
  /\ ~crashed
  /\ job[c].at = "signal"
  /\ pc[job[c].m.done] = "waiting"
  /\ pc' = [pc EXCEPT ![job[c].m.done] = "done"]
  /\ job' = [job EXCEPT ![c] = NoJob]
  /\ UNCHANGED <<msg, readChannel, writeChannel, files, resp, crashed, sortImpl, history>>

Worker ==
  \/ TakeRead
  \/ TakeWrite
  \/ \E c \in Callers :
       \/ ReadAbsent(c)
       \/ ReadOpen(c)
       \/ ReadScan(c)
       \/ WriteOpen(c)
       \/ WriteOpenFails(c)
       \/ WriteLine(c)
       \/ WriteLineFails(c)
       \/ WriteFlush(c)
       \/ SignalDone(c)

Handlers ==
  \E c \in Callers :
    \/ \E s \in Sensors : SubmitRead(c, s)
    \/ \E s \in Sensors : \E b \in BatchesFor(s) : SubmitWrite(c, s, b)

Next == Worker \/ Handlers

Spec == Init /\ [][Next]_vars

\* The scheduler runs the worker whenever it can take a step, and the select
\* chooses among its ready cases at random, so a case that is ready again and
\* again is chosen in the end.
WorkerBody ==
  \E c \in Callers :
    \/ ReadAbsent(c) \/ ReadOpen(c) \/ ReadScan(c)
    \/ WriteOpen(c) \/ WriteLine(c) \/ WriteFlush(c)
    \/ SignalDone(c)

Fairness == WF_vars(WorkerBody) /\ SF_vars(TakeRead) /\ SF_vars(TakeWrite)

\* The runs in which the handlers read sensor 1 and post for it the one-line
\* batches, under the fair scheduling.
LiveHandlers ==
  \E c \in Callers :
    \/ SubmitRead(c, 1)
    \/ \E b \in {<<Rd(<<"a">>, 12)>>, <<Rd(<<NL>>, 5)>>} : SubmitWrite(c, 1, b)

LiveNext == Worker \/ LiveHandlers

FairSpec == Init /\ [][LiveNext]_vars /\ Fairness

\* The logs of sensor 1 that earlier runs of the program can have left in the
\* data directory: none, an empty file, two lines that tie, and seven lines
\* of which the first two tie and the last sorts before them all.
StoredLogs ==
  { NoFile,
    [exists |-> TRUE, data |-> <<>>],
    [exists |-> TRUE, data |-> Encode(Rd(<<"a">>, 12)) \o Encode(Rd(<<"a">>, 5))],
    [exists |-> TRUE,
     data |-> Encode(Rd(<<"b">>, 5)) \o Encode(Rd(<<"b">>, 12)) \o Encode(Rd(<<"b">>, 5))
              \o Encode(Rd(<<"b">>, 5)) \o Encode(Rd(<<"b">>, 5)) \o Encode(Rd(<<"b">>, 5))
              \o Encode(Rd(<<"a">>, 5))] }

\* A start on a data directory that earlier runs have filled, of a build with
\* either library.
RestartInit == \E impl \in SortImpls : \E stored \in StoredLogs : Start(impl, stored)

\* After a restart the handlers read sensor 1 and post one reading for it.
RestartHandlers ==
  \E c \in Callers :
    \/ SubmitRead(c, 1)
    \/ SubmitWrite(c, 1, <<Rd(<<"a">>, 12)>>)

RestartNext == Worker \/ RestartHandlers

RestartSpec == RestartInit /\ [][RestartNext]_vars

\* Readings for the codec: the empty timestamp, letters, digits, a space and
\* a newline in the timestamp; values of one and of two digits.
CodecReadings ==
  { Rd(ts, v) : ts \in {<<>>, <<"a">>, <<"b", "a">>, <<"1">>, <<"1", "0">>, <<"a", SP, "b">>, <<NL>>},
                v \in {0, 5, 10, 12, 99} }

\* The first handler posts one reading for sensor 1, the others read it.
CodecHandlers ==
  \/ \E r \in CodecReadings : SubmitWrite(1, 1, <<r>>)
  \/ \E c \in Callers \ {1} : SubmitRead(c, 1)

CodecNext == Worker \/ CodecHandlers

CodecSpec == Init /\ [][CodecNext]_vars

\* Clients that send one request after the other: a handler starts only when
\* every handler before it has been unblocked.
SequentialHandlers ==
  \E c \in Callers :
    /\ \A d \in Callers : d < c => pc[d] = "done"
    /\ \/ \E s \in Sensors : SubmitRead(c, s)
       \/ \E s \in Sensors : \E b \in BatchesFor(s) : SubmitWrite(c, s, b)

SequentialNext == Worker \/ SequentialHandlers

SequentialSpec == Init /\ [][SequentialNext]_vars

-----------------------------------------------------------------------------
(* Vocabulary of the properties *)

IsRead(c) == msg[c].kind = "read"

IsWrite(c) == msg[c].kind = "write"

BatchOf(c) == msg[c].readings.Readings

\* The worker has produced the answer to c's request.
Answered(c) == pc[c] = "done" \/ (pc[c] = "waiting" /\ job[c].at = "signal")

Range(seq) == {seq[i] : i \in 1..Len(seq)}

RECURSIVE EncodeAll(_)
EncodeAll(rs) == IF rs = <<>> THEN <<>> ELSE Encode(Head(rs)) \o EncodeAll(Tail(rs))

\* The bytes the appends of the writers ws (in that order) put in a log: of
\* each batch the lines written before the append ended or failed.
RECURSIVE LogOf(_)
LogOf(ws) ==
  IF ws = <<>> THEN <<>>
  ELSE EncodeAll(SubSeq(BatchOf(Head(ws)), 1, wrote[Head(ws)])) \o LogOf(Tail(ws))

\* The same with every batch in full.
RECURSIVE FullLogOf(_)
FullLogOf(ws) ==
  IF ws = <<>> THEN <<>> ELSE EncodeAll(BatchOf(Head(ws))) \o FullLogOf(Tail(ws))

\* The submitted writers to sensor s among handlers c..NumCallers, in
\* submission order.
RECURSIVE WritersFrom(_, _)
WritersFrom(s, c) ==
  IF c > NumCallers THEN <<>>
  ELSE (IF IsWrite(c) /\ msg[c].readings.Sensor_id = s THEN <<c>> ELSE <<>>)
       \o WritersFrom(s, c + 1)

WellFormed(ts) == \A i \in 1..Len(ts) : ts[i] \notin {SP, NL}

Count(x, seq) == Cardinality({i \in 1..Len(seq) : seq[i] = x})

SameReadings(xs, ys) ==
  /\ Len(xs) = Len(ys)
  /\ \A i \in 1..Len(xs) : Count(xs[i], xs) = Count(xs[i], ys)

RECURSIVE FirstReadings(_)
FirstReadings(ws) ==
  IF ws = <<>> THEN <<>> ELSE <<BatchOf(Head(ws))[1]>> \o FirstReadings(Tail(ws))

-----------------------------------------------------------------------------
(* C1 *)

\* C1: in every reachable state at most one message is being processed and
\* at most one file is open; the handlers blocked in <-done are exactly the
\* senders of the messages being processed, so the worker receives a
\* message only when the one before has had its done signal delivered.
C1_OneOperationAtATime ==
  /\ Cardinality(InFlight) <= 1
  /\ Cardinality(OpenOps) <= 1
  /\ \A c \in Callers : pc[c] = "waiting" <=> c \in InFlight

\* An append has written a line and has more to write while a read and a
\* write are blocked on the two channels.
C1_Witness ==
  \E c \in OpenOps :
    /\ job[c].at = "lines"
    /\ wrote[c] = 1
    /\ job[c].i <= Len(BatchOf(c))
    /\ readChannel # <<>>
    /\ writeChannel # <<>>

-----------------------------------------------------------------------------
(* C2 *)

\* C2 as stated: what a read scanned is made of complete batches only, some
\* of the batches whose append to the sensor had ended, each in full.
C2_OnlyCompleteBatches ==
  \A c \in Callers :
    (IsRead(c) /\ Answered(c)) =>
      \E S \in SUBSET Range(sawEnded[c]) :
        saw[c] = FullLogOf(SelectSeq(sawEnded[c], LAMBDA w : w \in S))

\* C2 (amended): what a read scanned, and what it returns, is the log made
\* by the appends that had ended when it scanned: every line they wrote (a
\* whole batch, or the lines written before the append failed), and no line
\* of any other append.
C2_NoTornRead ==
  \A c \in Callers :
    (IsRead(c) /\ Answered(c)) =>
      /\ saw[c] = LogOf(sawEnded[c])
      /\ resp[c].Readings = ReadResult(msg[c].sensorId, LogOf(sawEnded[c])).Readings

\* A read has returned a log that holds the two lines of the two-line batch
\* and the line of another batch.
C2_Witness ==
  \E c \in Callers :
    /\ IsRead(c) /\ Answered(c)
    /\ Len(sawEnded[c]) >= 2
    /\ \E w \in Range(sawEnded[c]) : wrote[w] = 2
    /\ Len(resp[c].Readings) = 3

-----------------------------------------------------------------------------
(* C3 *)

\* The read of c has returned, and the appends that had ended when it
\* scanned (on a log that was empty at the start) are N completed writes of
\* one reading each: each wrote its line without an I/O fault.
AfterOneReadingWrites(c) ==
  /\ IsRead(c) /\ pc[c] = "done"
  /\ \A w \in Range(sawEnded[c]) : Len(BatchOf(w)) = 1 /\ ~ioFailed[w]

-----------------------------------------------------------------------------
(* C4 *)

\* b, submitted after a, has been received while a is still blocked sending.
Overtaken(a, b) ==
  a < b /\ pc[a] = "sending" /\ pc[b] \in {"waiting", "done"}

\* C4 as stated: no request is received before one submitted earlier, on
\* whichever channel.
C4_FifoAcrossChannels ==
  \A a, b \in Callers : ~Overtaken(a, b)

\* C4 (amended): no request is received before one submitted earlier on the
\* same channel.
C4_FifoPerChannel ==
  \A a, b \in Callers : msg[a].kind = msg[b].kind => ~Overtaken(a, b)

\* Three requests on one channel: the first answered, the second being
\* processed, the third still blocked sending.
C4_Witness ==
  \E a, b, c \in Callers :
    /\ a < b /\ b < c
    /\ msg[a].kind = msg[b].kind /\ msg[b].kind = msg[c].kind
    /\ pc[a] = "done" /\ pc[b] = "waiting" /\ pc[c] = "sending"

-----------------------------------------------------------------------------
(* C5 *)

\* C5: the log of every sensor is, for the writes submitted for it taken in
\* submission order, the lines written for the first, then the lines written
\* for the second, and so on, each block in the order of its batch; a write
\* answered without an I/O fault has its whole batch in its block.
C5_BatchesInArrivalOrder ==
  /\ \A s \in Sensors : files[s].data = LogOf(WritersFrom(s, 1))
  /\ \A c \in Callers :
       (IsWrite(c) /\ Answered(c) /\ ~ioFailed[c]) => wrote[c] = Len(BatchOf(c))

\* Two writes for one sensor: the two-line batch of the first is in the log
\* and the second, which was blocked on the channel meanwhile, has written
\* its line after it.
C5_Witness ==
  \E a, b \in Callers :
    /\ a < b
    /\ IsWrite(a) /\ IsWrite(b)
    /\ msg[a].readings.Sensor_id = msg[b].readings.Sensor_id
    /\ wrote[a] = 2 /\ wrote[b] = 1
    /\ pc[a] = "done" /\ pc[b] = "done"

-----------------------------------------------------------------------------
(* C6 *)

\* C6: under FairSpec every request a handler submits is in the end
\* received by the worker, and its handler is in the end unblocked.
C6_NoStarvation ==
  \A c \in Callers :
    /\ (pc[c] = "sending") ~> (pc[c] \in {"waiting", "done"})
    /\ (pc[c] = "sending") ~> (pc[c] = "done")

\* The same for the runs in which the worker does not panic.
C6_ServedUnlessCrashed ==
  \A c \in Callers : (pc[c] = "sending") ~> (pc[c] = "done" \/ crashed)

-----------------------------------------------------------------------------
(* C7 *)

\* The response c observes when unblocked is the answer to its own request:
\* for a read the JSON of the Readings of the sensor it asked for, with the
\* readings decoded from the log its read scanned; for a write a 400 only
\* if its own append failed and a 201 only if its own append opened the log.
OwnResponse(c) ==
  IF IsRead(c)
  THEN /\ resp[c].body = "json"
       /\ resp[c].Sensor_id = msg[c].sensorId
       /\ resp[c].Readings = ReadResult(msg[c].sensorId, saw[c]).Readings
  ELSE /\ resp[c] \in {CreatedResponse, ErrorResponse}
       /\ resp[c] = ErrorResponse => ioFailed[c]
       /\ resp[c] = CreatedResponse => files[msg[c].readings.Sensor_id].exists

\* C7: nothing is written to the writer of a handler whose request the
\* worker has not answered, a handler is unblocked only once its own request
\* is answered, and the response it then holds is the answer to its own
\* request.
C7_ReplyIsolation ==
  \A c \in Callers :
    /\ ~Answered(c) => resp[c] = NoResponse
    /\ pc[c] = "done" => (job[c] = NoJob /\ OwnResponse(c))

\* Two reads of different sensors have been answered with different bodies.
C7_Witness ==
  \E a, b \in Callers :
    /\ IsRead(a) /\ IsRead(b)
    /\ pc[a] = "done" /\ pc[b] = "done"
    /\ msg[a].sensorId # msg[b].sensorId
    /\ resp[a].Readings # resp[b].Readings

-----------------------------------------------------------------------------
(* C8 *)

\* C8: the worker is running in every reachable state.
C8_WorkerNeverExits == ~crashed

-----------------------------------------------------------------------------
(* C9 *)

\* C9: a write whose append hit an I/O fault is answered with the error, and
\* a write answered 201 has all the lines of its batch in the log.
C9_FailureReported ==
  \A c \in Callers :
    (IsWrite(c) /\ Answered(c)) =>
      /\ ioFailed[c] => resp[c] = ErrorResponse
      /\ resp[c] = CreatedResponse => wrote[c] = Len(BatchOf(c))

-----------------------------------------------------------------------------
(* C10 *)

\* C10: the readings every read returns are in ascending order of
\* timestamp: no reading's timestamp is below that of the one before it.
C10_ReadSorted ==
  \A c \in Callers :
    (IsRead(c) /\ Answered(c)) =>
      \A i \in 1..(Len(resp[c].Readings) - 1) :
        ~StrLess(resp[c].Readings[i + 1].Timestamp, resp[c].Readings[i].Timestamp)

\* A read has returned three readings of two batches whose lines are not in
\* timestamp order in the file.
C10_Witness ==
  \E c \in Callers :
    /\ IsRead(c) /\ pc[c] = "done"
    /\ Len(sawEnded[c]) = 2
    /\ Len(resp[c].Readings) = 3
    /\ resp[c].Readings # DecodeAll(ScanLines(saw[c], <<>>))

-----------------------------------------------------------------------------
(* C11 *)

\* The readings of a sequence that carry the timestamp ts, in their order.
TiesOf(readings, ts) == SelectSeq(readings, LAMBDA r : r.Timestamp = ts)

\* C11. Readings of one read result that carry the same timestamp stand in
\* the order in which their lines stand in the log.
C11_StableTies ==
  \A c \in Callers :
    (IsRead(c) /\ Answered(c)) =>
      LET inFile == DecodeAll(ScanLines(saw[c], <<>>))
      IN \A k \in 1..Len(inFile) :
           TiesOf(resp[c].Readings, inFile[k].Timestamp) = TiesOf(inFile, inFile[k].Timestamp)

\* The same under the library from Go 1.19 on, whose sort of a short slice
\* is an insertion sort.
C11_StableTiesPdqsort == sortImpl = "pdqsort" => C11_StableTies

-----------------------------------------------------------------------------
(* C12 *)

\* The sensor a read or a write names.
SensorOf(c) == IF IsRead(c) THEN msg[c].sensorId ELSE msg[c].readings.Sensor_id

\* No append had opened the log of c's sensor when c's read ran: every
\* append that had returned had failed to open the file.
ReadBeforeAnyWrite(c) ==
  \A k \in 1..Len(sawEnded[c]) : resp[sawEnded[c][k]] = ErrorResponse

\* C12. A read of a sensor for which no write was ever performed is answered
\* with the sensor id and the empty, non-null sequence of readings, not with
\* an error, and when it ends the sensor still has no log.
C12_AbsentReadsEmpty ==
  \A c \in Callers :
    (IsRead(c) /\ Answered(c) /\ ReadBeforeAnyWrite(c)) =>
      /\ resp[c] = [code |-> 200, body |-> "json", Sensor_id |-> SensorOf(c),
                    Readings |-> <<>>, null |-> FALSE]
      /\ job[c].at = "signal" => ~files[SensorOf(c)].exists

C12_Witness ==
  \E c \in Callers :
    /\ IsRead(c) /\ job[c].at = "signal" /\ ReadBeforeAnyWrite(c)
    /\ resp[c].code = 200
    /\ \E w \in Callers : IsWrite(w) /\ SensorOf(w) # SensorOf(c) /\ pc[w] = "done"

-----------------------------------------------------------------------------
(* C13 *)

\* C13. Two reads of one sensor between which no append to its log has
\* returned are answered alike.
C13_IdempotentRead ==
  \A a, b \in Callers :
    (/\ IsRead(a) /\ IsRead(b) /\ SensorOf(a) = SensorOf(b)
     /\ Answered(a) /\ Answered(b)
     /\ sawEnded[a] = sawEnded[b]) =>
      resp[a] = resp[b]

C13_Witness ==
  \E a, b \in Callers :
    /\ a # b /\ IsRead(a) /\ IsRead(b) /\ SensorOf(a) = SensorOf(b)
    /\ pc[a] = "done" /\ pc[b] = "done"
    /\ sawEnded[a] = sawEnded[b]
    /\ resp[a].code = 200 /\ Len(resp[a].Readings) = 2

-----------------------------------------------------------------------------
(* C14 *)

\* C14. When an append that met no I/O fault has returned, and its caller is
\* not yet unblocked, the log is the bytes it held when the append opened it,
\* followed by the encoded lines of the batch in the order of the batch.
C14_AppendKeepsAndAdds ==
  \A c \in Callers :
    (IsWrite(c) /\ job[c].at = "signal" /\ ~ioFailed[c]) =>
      /\ files[SensorOf(c)].exists
      /\ files[SensorOf(c)].data = before[c] \o EncodeAll(BatchOf(c))

C14_Witness ==
  \E c \in Callers :
    /\ IsWrite(c) /\ job[c].at = "signal" /\ ~ioFailed[c]
    /\ Len(BatchOf(c)) = 2
    /\ before[c] # <<>>

-----------------------------------------------------------------------------
(* C15 *)

\* C15. A step of the worker on a read request (receiving it, opening the
\* file, scanning, answering, signalling) leaves every log as it was, in
\* content and in existence.
C15_ReadLeavesFiles ==
  [][\A c \in Callers :
       (IsRead(c) /\ (job'[c] # job[c] \/ crashed' # crashed)) => files' = files]_vars

C15_Witness ==
  \E a, b \in Callers :
    /\ IsRead(a) /\ pc[a] = "done" /\ resp[a].code = 200 /\ ~resp[a].null /\ resp[a].Readings = <<>>
    /\ IsRead(b) /\ job[b].at = "signal" /\ files[SensorOf(b)].data # <<>>

-----------------------------------------------------------------------------
(* C16 *)

\* The readings that the lines of a batch decode to.
DecodedOf(batch) ==
  LET lines == ScanLines(EncodeAll(batch), <<>>)
  IN {Decode(lines[k]) : k \in {j \in 1..Len(lines) : ~LinePanics(lines[j])}}

\* C16. A step of the worker on a write to sensor s leaves the log of every
\* other sensor as it was, and every reading in the answer to a read of s
\* is the decoding of a line of a batch posted for s.
C16_OneSensorPerRequest ==
  /\ [][\A c \in Callers :
          (IsWrite(c) /\ job'[c] # job[c]) =>
            \A t \in Sensors \ {SensorOf(c)} : files'[t] = files[t]]_vars
  /\ [](\A c \in Callers :
          (IsRead(c) /\ Answered(c)) =>
            \A k \in 1..Len(resp[c].Readings) :
              \E w \in Callers :
                /\ IsWrite(w) /\ SensorOf(w) = SensorOf(c)
                /\ resp[c].Readings[k] \in DecodedOf(BatchOf(w)))

C16_Witness ==
  \E r, w, v \in Callers :
    /\ IsRead(r) /\ pc[r] = "done" /\ Len(resp[r].Readings) > 0
    /\ IsWrite(w) /\ SensorOf(w) = SensorOf(r) /\ w \in Range(sawEnded[r])
    /\ IsWrite(v) /\ SensorOf(v) # SensorOf(r) /\ pc[v] = "done" /\ ~ioFailed[v]
    /\ files[SensorOf(v)].data # <<>>

-----------------------------------------------------------------------------
(* C17 *)

\* The readings of the batches of the writers ws, batch after batch.
RECURSIVE AllReadings(_)
AllReadings(ws) ==
  IF ws = <<>> THEN <<>> ELSE BatchOf(Head(ws)) \o AllReadings(Tail(ws))

\* The timestamp up to its first space.
UpToSpace(ts) ==
  SubSeq(ts, 1, (CHOOSE i \in 1..Len(ts) : ts[i] = SP /\ \A j \in 1..(i - 1) : ts[j] # SP) - 1)

\* The line of the reading has a value field that is no number: the
\* timestamp holds a space, no newline, and a letter after its first space.
UnparsableLine(r) ==
  /\ NL \notin Range(r.Timestamp)
  /\ \E i \in 1..(Len(r.Timestamp) - 1) :
       /\ r.Timestamp[i] = SP /\ \A j \in 1..(i - 1) : r.Timestamp[j] # SP
       /\ r.Timestamp[i + 1] \in {"a", "b"}

\* What the claim expects a read to return for the line of r: r itself, and
\* the value zero when the value field of the line is no number.
Tolerated(r) ==
  IF UnparsableLine(r) THEN [Timestamp |-> UpToSpace(r.Timestamp), Value |-> 0] ELSE r

RECURSIVE ToleratedAll(_)
ToleratedAll(rs) ==
  IF rs = <<>> THEN <<>> ELSE <<Tolerated(Head(rs))>> \o ToleratedAll(Tail(rs))

\* The appends ws wrote their batches in full, and each of their readings has
\* a well-formed timestamp or a line with an unparsable value field.
MalformedValuesOnly(ws) ==
  /\ \A w \in Range(ws) : ~ioFailed[w]
  /\ \A r \in Range(AllReadings(ws)) : WellFormed(r.Timestamp) \/ UnparsableLine(r)

\* C17. A read of a log that holds lines with an unparsable value field is
\* answered (every line it is about to scan has its two fields), with one
\* reading per line: value zero for each such line and the submitted reading
\* for every other line.
C17_MalformedValueIsZero ==
  \A c \in Callers :
    IsRead(c) =>
      /\ (job[c].at = "scan" /\ MalformedValuesOnly(ended[SensorOf(c)])) =>
           \A line \in Range(ScanLines(files[SensorOf(c)].data, <<>>)) : SP \in Range(line)
      /\ (Answered(c) /\ MalformedValuesOnly(sawEnded[c])) =>
           /\ resp[c].code = 200
           /\ Len(resp[c].Readings) = Len(ScanLines(saw[c], <<>>))
           /\ SameReadings(resp[c].Readings, ToleratedAll(AllReadings(sawEnded[c])))

C17_Witness ==
  \E c \in Callers :
    /\ IsRead(c) /\ pc[c] = "done" /\ MalformedValuesOnly(sawEnded[c])
    /\ \E r \in Range(AllReadings(sawEnded[c])) : UnparsableLine(r)
    /\ \E r \in Range(AllReadings(sawEnded[c])) : WellFormed(r.Timestamp)
    /\ Len(resp[c].Readings) = 3

-----------------------------------------------------------------------------
(* C18 *)

\* C18. A reading whose timestamp holds no space and no newline, written as
\* the only line of a log and read back, comes back with the same timestamp
\* and the same value.
C18_CodecRoundTrip ==
  \A c, w \in Callers :
    (/\ IsRead(c) /\ Answered(c)
     /\ sawEnded[c] = <<w>> /\ ~ioFailed[w] /\ Len(BatchOf(w)) = 1
     /\ WellFormed(BatchOf(w)[1].Timestamp)) =>
      resp[c].Readings = BatchOf(w)

C18_Witness ==
  \E c, w \in Callers :
    /\ IsRead(c) /\ pc[c] = "done"
    /\ sawEnded[c] = <<w>> /\ ~ioFailed[w] /\ Len(BatchOf(w)) = 1
    /\ BatchOf(w)[1].Timestamp = <<>> /\ BatchOf(w)[1].Value = 12
    /\ Len(resp[c].Readings) = 1

-----------------------------------------------------------------------------
(* C19 *)

\* The write of w was answered 201 and its caller unblocked before the read
\* of c was submitted (the clients of SequentialSpec send one request after
\* the other), both for one sensor, and the read has been answered.
ReadAfterWrite(c, w) ==
  /\ w < c /\ IsWrite(w) /\ IsRead(c) /\ SensorOf(w) = SensorOf(c)
  /\ pc[w] = "done" /\ resp[w] = CreatedResponse
  /\ Answered(c)

\* C19. A read submitted after the caller of a write to the same sensor was
\* unblocked with success returns every reading of that write's batch (here
\* for batches whose timestamps hold no space and no newline).
C19_ReadYourWrites ==
  \A c, w \in Callers :
    (ReadAfterWrite(c, w) /\ \A r \in Range(BatchOf(w)) : WellFormed(r.Timestamp)) =>
      \A r \in Range(BatchOf(w)) : r \in Range(resp[c].Readings)

\* The same for the writes whose append met no I/O fault.
C19_VisibleUnlessFault ==
  \A c, w \in Callers :
    (/\ ReadAfterWrite(c, w) /\ ~ioFailed[w]
     /\ \A r \in Range(BatchOf(w)) : WellFormed(r.Timestamp)) =>
      \A r \in Range(BatchOf(w)) : r \in Range(resp[c].Readings)

-----------------------------------------------------------------------------
(* C20 *)

\* C20. A read of a log that holds no line is answered like a read of a
\* sensor that was never written: the sensor id with the empty, non-null
\* sequence of readings.
C20_EmptyLogReadsLikeAbsent ==
  \A c \in Callers :
    (IsRead(c) /\ Answered(c) /\ ScanLines(saw[c], <<>>) = <<>>) =>
      resp[c] = [code |-> 200, body |-> "json", Sensor_id |-> SensorOf(c),
                 Readings |-> <<>>, null |-> FALSE]

====
